---- MODULE Spec2Model ----
(***************************************************************************)
(* A model of ORFclust: the transcript assembler (Transcript.add and       *)
(* Transcript.finalize), the group containers and their sweeps             *)
(* (Transcriptome.gene_it, Transcriptome.bundle_it) and the per-cluster    *)
(* body of orfclust() in main.py.                                          *)
(*                                                                         *)
(* An IntervalTree is modelled as the list sorted() yields for it: a       *)
(* sequence of <<begin, end>> pairs in (begin, end) order, duplicates      *)
(* kept, the data object of each interval left out.                        *)
(***************************************************************************)
EXTENDS Integers, Sequences, FiniteSets, TLC

VARIABLES
    tx,         \* the Transcript under assembly
    pre,        \* the Transcript as it was before the last operation on it
    arg,        \* the record given to the last Transcript.add
    ret,        \* what the last operation returned
    n,          \* how many records were given to Transcript.add
    objects,    \* Transcriptome.objects
    cursor,     \* the position of a sweep in objects
    acc,        \* the Gene or Bundle a sweep is filling
    emitted,    \* the groups a sweep has yielded so far
    clusters,   \* per emitted Gene, the groups group_by made of it
    out,        \* the rows written to the output files, one per cluster
    offered,    \* the objects given to a group's add_object, in order
    pc          \* where the modelled run stands

vars == <<tx, pre, arg, ret, n, objects, cursor, acc, emitted, clusters, out, offered, pc>>

txVars == <<tx, pre, arg, ret, n>>
sweepVars == <<objects, cursor, acc, emitted, clusters, out, offered>>

----------------------------------------------------------------------------
(* Bounds *)

MaxCoord == 4       \* coordinates are 1..MaxCoord, interval ends included
MaxIvs == 2         \* intervals per tree of a drawn transcript
MaxAdds == 2        \* records given to one transcript after its first
MaxTx == 3          \* transcripts of a transcriptome
MaxOffers == 2      \* objects given to one group
MaxOverlapOffers == 3   \* objects given to one OverlapBundle

(* Program constants *)

Inf == 99           \* float("inf"), the start of an empty Object

None == "None"
Unset == "unset"    \* an attribute no constructor assigned

Min(a, b) == IF a <= b THEN a ELSE b
Max(a, b) == IF a >= b THEN a ELSE b

Coords == 1..MaxCoord

\* half-open ranges [b, e) a record of a well-formed line can carry
Intervals == {iv \in Coords \X Coords : iv[1] < iv[2]}

SeqIds == {"chr1", "chr2"}
Strands == {"+", "-"}
Tids == {"t1", "t2"}
Gids == {"g1", "g2"}

----------------------------------------------------------------------------
(* IntervalTree, as used by Transcript *)

\* Interval.__lt__: by begin, then by end
IvLess(a, b) == a[1] < b[1] \/ (a[1] = b[1] /\ a[2] < b[2])

\* IntervalTree.addi, seen through sorted(): every interval carries its own
\* data object, so an interval with the coordinates of an earlier one is kept
Addi(tree, iv) ==
    LET k == Cardinality({i \in 1..Len(tree) : ~IvLess(iv, tree[i])})
    IN  SubSeq(tree, 1, k) \o <<iv>> \o SubSeq(tree, k + 1, Len(tree))

\* IntervalTree.begin(): the smallest boundary of the tree
TreeBegin(tree) ==
    CHOOSE b \in {tree[i][1] : i \in 1..Len(tree)} :
        \A i \in 1..Len(tree) : b <= tree[i][1]

\* IntervalTree.end(): the largest boundary of the tree
TreeEnd(tree) ==
    CHOOSE e \in {tree[i][2] : i \in 1..Len(tree)} :
        \A i \in 1..Len(tree) : e >= tree[i][2]

\* IntervalTree.__getitem__(point): the intervals that contain the point
At(tree, p) == {i \in 1..Len(tree) : tree[i][1] <= p /\ p < tree[i][2]}

----------------------------------------------------------------------------
(* Transcript *)

Attrs(tid, gid) == [transcript_id |-> tid, gene_id |-> gid]

MkTranscript(seqid, strand, tid, gid, start, end, exons, cds, expression) ==
    [seqid |-> seqid, strand |-> strand, tid |-> tid, gid |-> gid,
     start |-> start, end |-> end, exons |-> exons, cds |-> cds,
     attrs |-> Attrs(tid, gid), expression |-> expression]

get_exons(t) == t.exons
get_cds(t) == t.cds

\* Object.add_line and GTFObjectFactory.create: the record of one line, its
\* attributes under the canonical keys (None: the key is absent)
MkObject(obj_type, seqid, strand, start, end, tid, gid) ==
    [obj_type |-> obj_type, seqid |-> seqid, strand |-> strand,
     start |-> start, end |-> end, attrs |-> Attrs(tid, gid)]

\* Object.get_attr
get_attr(obj, k) == obj.attrs[k]

\* Transcript.__init__(obj) with from_transcript and from_exon: the bounds and
\* attributes of the record, empty trees; from_exon leaves gid unassigned
\* when the record has no gene_id
NewTranscript(obj) ==
    [seqid |-> obj.seqid, strand |-> obj.strand,
     tid |-> obj.attrs.transcript_id,
     gid |-> IF obj.obj_type = "transcript" \/ obj.attrs.gene_id # None
             THEN obj.attrs.gene_id ELSE Unset,
     start |-> obj.start, end |-> obj.end, exons |-> <<>>, cds |-> <<>>,
     attrs |-> obj.attrs, expression |-> <<>>]

\* the assertions of from_transcript and from_exon
CanConstruct(obj) ==
    /\ obj.obj_type \in {"transcript", "exon", "CDS"}
    /\ obj.attrs.transcript_id # None
    /\ obj.obj_type = "transcript" => obj.attrs.gene_id # None

\* Object.add_attribute(k, v) with replace and append off: setdefault
add_attribute(attrs, k, v) ==
    IF attrs[k] = None THEN [attrs EXCEPT ![k] = v] ELSE attrs

\* Transcript.add, lines 411-421: what an accepted record changes
Absorb(t, obj) ==
    CASE obj.obj_type = "transcript" ->
            [t EXCEPT !.start = Min(t.start, obj.start),
                      !.end = Max(t.end, obj.end),
                      !.attrs = add_attribute(
                                    add_attribute(t.attrs, "transcript_id",
                                                  obj.attrs.transcript_id),
                                    "gene_id", obj.attrs.gene_id)]
      [] obj.obj_type = "exon" ->
            [t EXCEPT !.start = Min(t.start, obj.start),
                      !.end = Max(t.end, obj.end),
                      !.exons = Addi(t.exons, <<obj.start, obj.end>>)]
      [] obj.obj_type = "CDS" ->
            [t EXCEPT !.cds = Addi(t.cds, <<obj.start, obj.end>>)]
      [] OTHER -> t

\* Transcript.add as it would be without the guard on transcript_id
TranscriptAddNoTidCheck(t, obj) ==
    IF t.strand # obj.strand \/ t.seqid # obj.seqid
    THEN [ok |-> FALSE, tx |-> t]
    ELSE [ok |-> TRUE, tx |-> Absorb(t, obj)]

\* Transcript.add
TranscriptAdd(t, obj) ==
    IF t.strand # obj.strand \/ t.seqid # obj.seqid
    THEN [ok |-> FALSE, tx |-> t]
    ELSE IF t.tid # get_attr(obj, "transcript_id")
    THEN [ok |-> FALSE, tx |-> t]
    ELSE [ok |-> TRUE, tx |-> Absorb(t, obj)]

\* finalize as it would be without the else branch of lines 452-461
FinalizeBoundsNoExon(t, extend) ==
    IF Len(t.exons) > 0
    THEN LET exon_start == t.exons[1][1]
             exon_end == t.exons[Len(t.exons)][2]
         IN  IF extend
             THEN [t EXCEPT !.start = Min(t.start, exon_start),
                            !.end = Max(t.end, exon_end)]
             ELSE [t EXCEPT !.start = exon_start, !.end = exon_end]
    ELSE t

\* finalize, lines 441-461: the bounds are reconciled with the exon chain, or
\* the single exon is synthesized
FinalizeBounds(t, extend) ==
    IF Len(t.exons) > 0
    THEN LET exon_start == get_exons(t)[1][1]
             exon_end == get_exons(t)[Len(t.exons)][2]
         IN  IF extend
             THEN [t EXCEPT !.start = Min(t.start, exon_start),
                            !.end = Max(t.end, exon_end)]
             ELSE [t EXCEPT !.start = exon_start, !.end = exon_end]
    ELSE [t EXCEPT !.exons = Addi(t.exons, <<t.start, t.end>>)]

\* finalize, line 440
TidAssigned(t) == t.tid = t.attrs.transcript_id

\* finalize, lines 464-465: the assertion on the CDS
CdsFits(t) ==
    Len(t.cds) > 0 =>
        /\ At(t.exons, TreeBegin(t.cds)) # {}
        /\ At(t.exons, TreeEnd(t.cds) - 1) # {}

\* the sweep variables of a run that sweeps nothing
NoSweep ==
    /\ objects = <<>>
    /\ cursor = 0
    /\ acc = None
    /\ emitted = <<>>
    /\ clusters = <<>>
    /\ out = <<>>
    /\ offered = <<>>

----------------------------------------------------------------------------
(* SpecFin: finalize applied to every assembled transcript within the      *)
(* bounds.  A transcript line gives [start, end); each exon added widened  *)
(* the bounds, CDS records did not.                                        *)

Trees ==
    {s \in UNION {[1..k -> Intervals] : k \in 0..MaxIvs} :
        \A i \in 1..(Len(s) - 1) : IvLess(s[i], s[i + 1])}

\* the transcript line's span [start, end), widened by every exon added
Spans(exons) ==
    {se \in Intervals :
        \A i \in 1..Len(exons) : se[1] <= exons[i][1] /\ exons[i][2] <= se[2]}

InitFin ==
    /\ \E ex \in Trees : \E cd \in Trees : \E se \in Spans(ex) :
          tx = MkTranscript("chr1", "+", "t1", "g1", se[1], se[2], ex, cd, <<>>)
    /\ pre = tx
    /\ arg = [extend |-> FALSE]
    /\ ret = "None"
    /\ n = 0
    /\ NoSweep
    /\ pc = "open"

Finalize(extend) ==
    /\ pc \in {"open", "added"}
    /\ pre' = tx
    /\ arg' = [extend |-> extend]
    /\ n' = n
    /\ UNCHANGED sweepVars
    /\ IF ~TidAssigned(tx)
       THEN /\ tx' = tx
            /\ ret' = "AssertionError"
            /\ pc' = "failed"
       ELSE /\ tx' = FinalizeBounds(tx, extend)
            /\ IF CdsFits(tx')
               THEN ret' = "None" /\ pc' = "final"
               ELSE ret' = "AssertionError" /\ pc' = "failed"

FinalizeDefault == Finalize(FALSE)
FinalizeExtend == Finalize(TRUE)

NextFin == FinalizeDefault \/ FinalizeExtend

SpecFin == InitFin /\ [][NextFin]_vars

Finalized == pc \in {"final", "failed"}

\* the interval's start and its last position lie inside some exon
Covered(t, iv) == At(t.exons, iv[1]) # {} /\ At(t.exons, iv[2] - 1) # {}

\* C3 (as claimed): a finalize that returns leaves every CDS interval with its
\* start and last position inside an exon, and a transcript with a CDS
\* interval no exon covers makes finalize fail.
C3_EveryCdsCovered ==
    Finalized =>
        (pc = "final" <=> \A i \in 1..Len(tx.cds) : Covered(tx, tx.cds[i]))

\* C4 (as claimed): after finalize(extend=false) on a transcript with an
\* exon, start is the least exon start and end the greatest exon end.
C4_BoundsMatchExons ==
    (pc = "final" /\ ~arg.extend /\ Len(pre.exons) > 0) =>
        /\ tx.start = TreeBegin(pre.exons)
        /\ tx.end = TreeEnd(pre.exons)

\* C5: finalize on a transcript that has no exon, whether it then returns or
\* fails on the CDS, leaves exactly one exon [start, end) and the bounds as
\* they were.
C5_SynthesizedExon ==
    (Finalized /\ Len(pre.exons) = 0) =>
        /\ tx.exons = <<(<<pre.start, pre.end>>)>>
        /\ tx.start = pre.start
        /\ tx.end = pre.end

C5_Witness ==
    /\ pc = "final"
    /\ Len(pre.exons) = 0
    /\ Len(pre.cds) > 0
    /\ tx.exons = <<(<<pre.start, pre.end>>)>>


----------------------------------------------------------------------------
(* SpecTx: one transcript from its first record to finalize.  The first    *)
(* record is a line of t1 on chr1 +; the records that follow are any line  *)
(* of the input.                                                           *)

ObjTypes == {"transcript", "exon", "CDS"}

\* a transcript line that passed the factory has a gene_id; an exon or CDS
\* line may lack one
Records ==
    {o \in [obj_type : ObjTypes, seqid : SeqIds, strand : Strands,
            start : Coords, end : Coords,
            attrs : [transcript_id : Tids, gene_id : {None, "g1"}]] :
        o.start < o.end /\ CanConstruct(o)}

FirstRecords ==
    {o \in Records : o.seqid = "chr1" /\ o.strand = "+" /\ o.attrs.transcript_id = "t1"}

\* what Transcript.add reads of a record before it decides
Identity(obj) ==
    [obj_type |-> obj.obj_type, seqid |-> obj.seqid, strand |-> obj.strand,
     tid |-> obj.attrs.transcript_id]

InitTx ==
    /\ \E o \in FirstRecords : CanConstruct(o) /\ tx = NewTranscript(o)
    /\ pre = tx
    /\ arg = [extend |-> FALSE]
    /\ ret = "None"
    /\ n = 0
    /\ NoSweep
    /\ pc = "open"

Add(obj) ==
    /\ pc \in {"open", "added"}
    /\ n < MaxAdds
    /\ LET r == TranscriptAdd(tx, obj)
       IN  /\ tx' = r.tx
           /\ ret' = IF r.ok THEN "True" ELSE "False"
    /\ pre' = tx
    /\ arg' = Identity(obj)
    /\ n' = n + 1
    /\ UNCHANGED sweepVars
    /\ pc' = "added"

AddRecord ==
    /\ n < MaxAdds
    /\ \E ty \in ObjTypes, sq \in SeqIds, st \in Strands, iv \in Intervals,
          tid \in Tids, gid \in {None, "g1"} :
           LET obj == MkObject(ty, sq, st, iv[1], iv[2], tid, gid)
           IN  CanConstruct(obj) /\ Add(obj)

NextTx == AddRecord \/ FinalizeDefault \/ FinalizeExtend

SpecTx == InitTx /\ [][NextTx]_vars

Mismatch(obj, t) ==
    obj.seqid # t.seqid \/ obj.strand # t.strand \/ obj.tid # t.tid

\* C10: Transcript.add returns False, and leaves the transcript (bounds,
\* attributes, exon tree, CDS tree) as it was, when the record's seqid,
\* strand or transcript_id differs from the transcript's; otherwise it
\* returns True.  It never raises.
C10_AddRejectsMismatch ==
    pc = "added" =>
        /\ ret \in {"True", "False"}
        /\ Mismatch(arg, pre) => (ret = "False" /\ tx = pre)
        /\ ~Mismatch(arg, pre) => ret = "True"

C10_Witness ==
    /\ pc = "added"
    /\ arg.obj_type = "exon"
    /\ arg.tid # pre.tid /\ arg.seqid = pre.seqid /\ arg.strand = pre.strand
    /\ Len(pre.exons) > 0
    /\ ret = "False"

----------------------------------------------------------------------------
(* Group containers: TXGroup, Bundle, Gene *)

\* a Transcript as the Object the group methods read
AsObject(t) ==
    [obj_type |-> "transcript", seqid |-> t.seqid, strand |-> t.strand,
     start |-> t.start, end |-> t.end, attrs |-> t.attrs]

\* Bundle.__init__ and Gene.__init__: no member, no index, bounds of an
\* empty Object, no identity
EmptyGroup ==
    [objects |-> <<>>, tid_map |-> <<>>, seqid |-> None, strand |-> None,
     start |-> Inf, end |-> 0, intervals |-> <<>>, gid |-> None]

\* TXGroup.is_empty (the first is_empty of Bundle's method resolution order)
is_empty(g) == Len(g.objects) = 0

\* Object.overlaps
overlaps(a, b) == a.start <= b.end /\ a.end >= b.start

\* IntervalTree.merge_overlaps (strict): a sorted tree with every interval
\* that begins before the previous one ends folded into it
RECURSIVE MergeFrom(_, _)
MergeFrom(merged, rest) ==
    IF rest = <<>> THEN merged
    ELSE LET higher == Head(rest)
             k == Len(merged)
         IN  IF k > 0 /\ higher[1] < merged[k][2]
             THEN MergeFrom([merged EXCEPT ![k] = <<merged[k][1],
                                                    Max(merged[k][2], higher[2])>>],
                            Tail(rest))
             ELSE MergeFrom(Append(merged, higher), Tail(rest))

merge_overlaps(tree) == MergeFrom(<<>>, tree)

\* IntervalTree.update
RECURSIVE Update(_, _)
Update(tree, ivs) ==
    IF ivs = <<>> THEN tree ELSE Update(Addi(tree, Head(ivs)), Tail(ivs))

\* the object a group method is given: an Exon or CDS record, or a Transcript
ObjOf(x) == IF "obj_type" \in DOMAIN x THEN x ELSE AsObject(x)

\* TXGroup.add_object for a Transcript, Exon or CDS object, lines 21-25 and
\* 35: the member of that id is looked up or built by Transcript(obj), then
\* given the object by Transcript.add, whose result is dropped; idx counts
\* from 1 here
TXGroupAddObject(g, t) ==
    LET obj == ObjOf(t)
        tid == obj.attrs.transcript_id
        idx == IF tid \in DOMAIN g.tid_map THEN g.tid_map[tid]
               ELSE Len(g.objects) + 1
        objs == IF Len(g.objects) + 1 = idx
                THEN Append(g.objects, NewTranscript(obj)) ELSE g.objects
    IN  [idx |-> idx,
         g |-> [g EXCEPT !.tid_map = (tid :> idx) @@ g.tid_map,
                         !.objects = [objs EXCEPT
                                         ![idx] = TranscriptAdd(objs[idx], obj).tx]]]

\* Bundle.add_object as it would be without the test of lines 160-161
BundleAddObjectNoCheck(g, t) ==
    LET g1 == [g EXCEPT !.seqid = IF g.seqid = None THEN t.seqid ELSE g.seqid,
                        !.strand = IF g.strand = None THEN t.strand ELSE g.strand]
        r == TXGroupAddObject(g1, t)
        inserted_obj == r.g.objects[r.idx]
    IN  [ok |-> TRUE,
         g |-> [r.g EXCEPT
                   !.intervals = merge_overlaps(
                       Update(r.g.intervals, get_exons(inserted_obj))),
                   !.start = Min(r.g.start, t.start),
                   !.end = Max(r.g.end, t.end)]]

\* Bundle.add_object
BundleAddObject(g, t) ==
    LET g1 == [g EXCEPT !.seqid = IF g.seqid = None THEN t.seqid ELSE g.seqid,
                        !.strand = IF g.strand = None THEN t.strand ELSE g.strand]
    IN  IF g1.seqid # t.seqid \/ g1.strand # t.strand
        THEN [ok |-> FALSE, g |-> g1]
        ELSE LET r == TXGroupAddObject(g1, t)
                 inserted_obj == r.g.objects[r.idx]
             IN  [ok |-> TRUE,
                  g |-> [r.g EXCEPT
                            !.intervals = merge_overlaps(
                                Update(r.g.intervals, get_exons(inserted_obj))),
                            !.start = Min(r.g.start, t.start),
                            !.end = Max(r.g.end, t.end)]]

\* Gene.add_object as it would be without the test of lines 195-196
GeneAddObjectNoGidCheck(g, t) ==
    LET obj_gid == get_attr(t, "gene_id")
    IN  IF obj_gid = None THEN [ok |-> FALSE, g |-> g]
        ELSE BundleAddObject(
                 [g EXCEPT !.gid = IF g.gid = None THEN obj_gid ELSE g.gid], t)

\* Gene.add_object
GeneAddObject(g, t) ==
    LET obj_gid == get_attr(t, "gene_id")
    IN  IF obj_gid = None THEN [ok |-> FALSE, g |-> g]
        ELSE LET g1 == [g EXCEPT !.gid = IF g.gid = None THEN obj_gid ELSE g.gid]
             IN  IF g1.gid # obj_gid THEN [ok |-> FALSE, g |-> g1]
                 ELSE BundleAddObject(g1, t)

\* OverlapBundle.add_object as it would be without the test of line 211
OverlapBundleAddObjectNoTest(g, t) == BundleAddObject(g, t)

\* OverlapBundle.add_object
OverlapBundleAddObject(g, t) ==
    IF g.seqid = None \/ overlaps(g, t)
    THEN BundleAddObject(g, t)
    ELSE [ok |-> FALSE, g |-> g]

\* Gene.get_gid
GeneGetGid(g) == g.objects[1].gid

----------------------------------------------------------------------------
(* The transcriptome a sweep reads: what build_from_file leaves, finalized  *)
(* transcripts with distinct ids in the order of their first lines.        *)

TidNames == <<"t1", "t2", "t3", "t4", "t5">>

SeqStrands == {<<"chr1", "+">>, <<"chr1", "-">>, <<"chr2", "+">>}

\* exon and CDS chains of the transcripts drawn: no CDS, two different
\* CDS chains inside one exon, and an exon apart from the others
Structures ==
    {<< <<(<<1, 2>>)>>, <<>> >>,
     << <<(<<1, 3>>)>>, <<(<<1, 2>>)>> >>,
     << <<(<<1, 3>>)>>, <<(<<2, 3>>)>> >>,
     << <<(<<3, 4>>)>>, <<(<<3, 4>>)>> >>}

\* a transcript that build_from_file assembled and finalize left as it is
FinalTx(tid, ss, gid, st) ==
    MkTranscript(ss[1], ss[2], tid, gid, st[1][1][1], st[1][Len(st[1])][2],
                 st[1], st[2], <<>>)

IsFinal(t) ==
    /\ Len(t.exons) > 0
    /\ FinalizeBounds(t, FALSE) = t
    /\ CdsFits(t)

\* list.sort(key): stable, so an element goes after those whose key is
\* smaller and after the earlier ones whose key is equal; before holds the
\* pairs <<i, j>> of positions with key(seq[i]) < key(seq[j])
SortedBy(seq, before) ==
    LET rank(i) == 1 + Cardinality({j \in 1..Len(seq) :
                        \/ <<j, i>> \in before
                        \/ (<<i, j>> \notin before /\ j < i)})
    IN  [p \in 1..Len(seq) |-> seq[CHOOSE i \in 1..Len(seq) : rank(i) = p]]

\* str.__lt__ on the gene ids drawn
GidBefore(a, b) == a.gid = "g1" /\ b.gid = "g2"

\* list.__lt__ on the get_exons() lists of two transcripts.  The intervals
\* carry the Exon objects of their transcript, so the first intervals of the
\* two lists are never equal and the comparison ends there, on their
\* Interval.__lt__: less by (begin, end), the data of equal coordinates
\* comparing neither way
ExonsBefore(a, b) ==
    IF a = <<>> THEN b # <<>>
    ELSE b # <<>> /\ IvLess(Head(a), Head(b))

CoordBefore(a, b) == ExonsBefore(get_exons(a), get_exons(b))

InitTranscriptome ==
    /\ \E k \in 0..MaxTx :
          /\ objects \in [1..k -> {t \in {FinalTx(tid, ss, gid, st) :
                                            tid \in {TidNames[i] : i \in 1..MaxTx},
                                            ss \in SeqStrands, gid \in Gids,
                                            st \in Structures} : IsFinal(t)}]
          /\ \A i \in 1..k : objects[i].tid = TidNames[i]
    /\ cursor = 0
    /\ acc = EmptyGroup
    /\ emitted = <<>>
    /\ clusters = <<>>
    /\ out = <<>>
    /\ offered = <<>>
    /\ tx = None /\ pre = None /\ arg = None /\ ret = "None" /\ n = 0
    /\ pc = "built"

\* Transcriptome.gid_sort
GidSort ==
    /\ pc = "built"
    /\ objects' = SortedBy(objects,
          {p \in (1..Len(objects)) \X (1..Len(objects)) :
              GidBefore(objects[p[1]], objects[p[2]])})
    /\ cursor' = 1
    /\ pc' = "gene_it"
    /\ UNCHANGED <<acc, emitted, clusters, out, offered, txVars>>

\* Transcriptome.coordinate_sort
CoordinateSort ==
    /\ pc = "built"
    /\ objects' = SortedBy(objects,
          {p \in (1..Len(objects)) \X (1..Len(objects)) :
              CoordBefore(objects[p[1]], objects[p[2]])})
    /\ cursor' = 1
    /\ pc' = "bundle_it"
    /\ UNCHANGED <<acc, emitted, clusters, out, offered, txVars>>

----------------------------------------------------------------------------
(* SpecGene: gid_sort, the gene sweep and the grouping of every Gene it     *)
(* yields, as orfclust() runs them.                                        *)

\* gene_it, the loop body
GeneItStep ==
    /\ pc = "gene_it"
    /\ cursor <= Len(objects)
    /\ LET obj == objects[cursor]
       IN  IF is_empty(acc) \/ GeneGetGid(acc) = obj.gid
           THEN /\ acc' = GeneAddObject(acc, obj).g
                /\ emitted' = emitted
           ELSE /\ emitted' = Append(emitted, acc)
                /\ acc' = GeneAddObject(EmptyGroup, obj).g
    /\ cursor' = cursor + 1
    /\ UNCHANGED <<objects, clusters, out, offered, txVars, pc>>

\* gene_it, after the loop
GeneItEnd ==
    /\ pc = "gene_it"
    /\ cursor > Len(objects)
    /\ emitted' = IF is_empty(acc) THEN emitted ELSE Append(emitted, acc)
    /\ pc' = "group_by"
    /\ UNCHANGED <<objects, cursor, acc, clusters, out, offered, txVars>>

\* group_by(["cds"]): the members of a group split by their get_cds() list,
\* one cluster per list in the order the lists first occur, each cluster
\* holding its members in the group's order
group_by(g) ==
    LET key(i) == get_cds(g.objects[i])
        firsts == {i \in 1..Len(g.objects) :
                      \A j \in 1..(i - 1) : key(j) # key(i)}
        nth(k) == CHOOSE i \in firsts :
                      Cardinality({j \in firsts : j < i}) = k - 1
        same(t, i) == get_cds(t) = key(i)
    IN  [k \in 1..Cardinality(firsts) |->
            SelectSeq(g.objects, LAMBDA t : same(t, nth(k)))]

\* orfclust, lines 51-55, for the next Gene of the sweep
GroupByStep ==
    /\ pc = "group_by"
    /\ Len(clusters) < Len(emitted)
    /\ clusters' = Append(clusters, group_by(emitted[Len(clusters) + 1]))
    /\ UNCHANGED <<objects, cursor, acc, emitted, out, offered, txVars, pc>>

GroupByEnd ==
    /\ pc = "group_by"
    /\ Len(clusters) = Len(emitted)
    /\ pc' = "clustered"
    /\ UNCHANGED <<sweepVars, txVars>>

NextGene == GidSort \/ GeneItStep \/ GeneItEnd \/ GroupByStep \/ GroupByEnd

SpecGene == InitTranscriptome /\ [][NextGene]_vars

\* the emitted groups that hold a transcript of this id, with its position
Holders(tid) ==
    {p \in (1..Len(emitted)) \X (1..MaxTx) :
        p[2] <= Len(emitted[p[1]].objects) /\ emitted[p[1]].objects[p[2]].tid = tid}

\* C2 (as claimed): once the gene sweep of a gid-sorted transcriptome has
\* ended, every input transcript is in exactly one emitted Gene, the members
\* of a Gene share one gene id, and two inputs of one gene id are in the same
\* Gene.
C2_GenePartition ==
    pc \in {"group_by", "clustered"} =>
        /\ \A i \in 1..Len(objects) : Cardinality(Holders(objects[i].tid)) = 1
        /\ \A k \in 1..Len(emitted) : \A i, j \in 1..Len(emitted[k].objects) :
              emitted[k].objects[i].gid = emitted[k].objects[j].gid
        /\ \A i, j \in 1..Len(objects) :
              objects[i].gid = objects[j].gid =>
                  \A p \in Holders(objects[i].tid), q \in Holders(objects[j].tid) :
                      p[1] = q[1]

\* the clusters, as <<gene, cluster>>, that hold a transcript of this id
ClustersOf(tid) ==
    {p \in (1..Len(clusters)) \X (1..MaxTx) :
        /\ p[2] <= Len(clusters[p[1]])
        /\ \E i \in 1..Len(clusters[p[1]][p[2]]) :
              clusters[p[1]][p[2]][i].tid = tid}

\* C6 (as claimed): under the default mode two transcripts of one gene group
\* are in the same cluster exactly when their sorted CDS lists are equal, so
\* a transcript without CDS never shares a cluster with one that has a CDS.
C6_ClusterIffSameCds ==
    pc = "clustered" =>
        \A i, j \in 1..Len(objects) :
            (Holders(objects[i].tid) # {} /\ Holders(objects[j].tid) # {}
             /\ \E p \in Holders(objects[i].tid), q \in Holders(objects[j].tid) :
                    p[1] = q[1])
            => ((ClustersOf(objects[i].tid) = ClustersOf(objects[j].tid))
                    <=> (get_cds(objects[i]) = get_cds(objects[j])))

----------------------------------------------------------------------------
(* SpecBundle: coordinate_sort and the bundle sweep.                       *)

\* bundle.add(obj), lines 137 and 141: Bundle, TXGroup and Object define
\* add_object and no method named add, so the attribute lookup raises
BundleAdd(g, t) == [raised |-> "AttributeError", g |-> g]

\* bundle_it, the loop body
BundleItStep ==
    /\ pc = "bundle_it"
    /\ cursor <= Len(objects)
    /\ LET obj == objects[cursor]
           fresh == is_empty(acc) \/ overlaps(acc, obj)
           r == BundleAdd(IF fresh THEN acc ELSE EmptyGroup, obj)
       IN  /\ emitted' = IF fresh THEN emitted ELSE Append(emitted, acc)
           /\ acc' = r.g
           /\ IF r.raised = "None"
              THEN ret' = ret /\ pc' = pc /\ cursor' = cursor + 1
              ELSE ret' = r.raised /\ pc' = "raised" /\ cursor' = cursor
    /\ UNCHANGED <<objects, clusters, out, offered, tx, pre, arg, n>>

\* bundle_it, after the loop
BundleItEnd ==
    /\ pc = "bundle_it"
    /\ cursor > Len(objects)
    /\ emitted' = IF is_empty(acc) THEN emitted ELSE Append(emitted, acc)
    /\ pc' = "swept"
    /\ UNCHANGED <<objects, cursor, acc, clusters, out, offered, txVars>>

NextBundle == CoordinateSort \/ BundleItStep \/ BundleItEnd

SpecBundle == InitTranscriptome /\ [][NextBundle]_vars

\* C1 (as claimed): when the bundle sweep of a coordinate-sorted
\* transcriptome has ended, every input transcript is in exactly one of the
\* bundles it emitted.
C1_BundlePartition ==
    pc \in {"swept", "raised"} =>
        \A i \in 1..Len(objects) : Cardinality(Holders(objects[i].tid)) = 1

----------------------------------------------------------------------------
(* SpecClust: orfclust from gid_sort to the closing of the output files,   *)
(* run without an expression file (Transcriptome.load_expression is not    *)
(* defined).  An expression value is kept in thousandths.                  *)

Policies == {"EXP", "SHORT", "LONG", "ORF"}

RECURSIVE Sum(_)
Sum(s) == IF s = <<>> THEN 0 ELSE Head(s) + Sum(Tail(s))

\* Object.get_expression takes no argument beside self: a call that passes
\* one is refused before the body runs
get_expression(t, nargs) ==
    IF nargs = 0
    THEN [raised |-> "None", value |-> t.expression]
    ELSE [raised |-> "TypeError", value |-> None]

\* elen: the total length of the exon chain
elen(t) == Sum([i \in 1..Len(t.exons) |-> t.exons[i][2] - t.exons[i][1]])

\* clear_exons
clear_exons(t) == [t EXCEPT !.exons = <<>>]

\* set_expression
set_expression(t, exp) == [t EXCEPT !.expression = exp]

\* IntervalTree.from_tuples
RECURSIVE FromTuples(_)
FromTuples(ivs) ==
    IF ivs = <<>> THEN <<>> ELSE Addi(FromTuples(Tail(ivs)), Head(ivs))

\* Transcript.set_exons
set_exons(t, exons) == [t EXCEPT !.exons = FromTuples(exons)]

\* Transcript.finalize, with what it raises
finalize(t, extend) ==
    IF ~TidAssigned(t) THEN [raised |-> "AssertionError", tx |-> t]
    ELSE LET f == FinalizeBounds(t, extend)
         IN  [raised |-> IF CdsFits(f) THEN "None" ELSE "AssertionError",
              tx |-> f]

\* max(iterable, key) and min(iterable, key) over the keys of the members:
\* the position of the first of the best
FirstMax(keys) ==
    CHOOSE i \in 1..Len(keys) :
        /\ \A j \in 1..Len(keys) : keys[j] <= keys[i]
        /\ \A j \in 1..(i - 1) : keys[j] < keys[i]

FirstMin(keys) ==
    CHOOSE i \in 1..Len(keys) :
        /\ \A j \in 1..Len(keys) : keys[j] >= keys[i]
        /\ \A j \in 1..(i - 1) : keys[j] > keys[i]

\* the key of lines 61 and 63 for every member
Elens(grp) == [i \in 1..Len(grp) |-> elen(grp[i])]

\* lines 57-70: the representative, a deep copy of a member
Representative(grp, rep) ==
    CASE rep = "EXP" ->
            [raised |-> get_expression(grp[1], 1).raised, tx |-> None]
      [] rep = "SHORT" -> [raised |-> "None", tx |-> grp[FirstMin(Elens(grp))]]
      [] rep = "LONG" -> [raised |-> "None", tx |-> grp[FirstMax(Elens(grp))]]
      [] rep = "ORF" ->
            LET model == clear_exons(grp[1])
            IN  finalize(set_exons(model, get_cds(model)), FALSE)

\* line 73: sum() over get_expression(sum) of every member, 0 for no member
TotalExp(grp) ==
    IF grp = <<>> THEN [raised |-> "None", value |-> 0]
    ELSE [raised |-> get_expression(grp[1], 1).raised, value |-> None]

\* line 77: the ids joined into the second column of the groups row
MemberIds(grp) == [i \in 1..Len(grp) |-> grp[i].tid]

\* line 87: zip stops at the shorter list
ZipAdd(a, b) == [i \in 1..Min(Len(a), Len(b)) |-> a[i] + b[i]]

\* lines 82-87
RECURSIVE CumulativeFrom(_, _)
CumulativeFrom(cumulative_expressions, rest) ==
    IF rest = <<>> THEN cumulative_expressions
    ELSE LET e == get_expression(Head(rest), 0).value
         IN  CumulativeFrom(IF cumulative_expressions = <<>> THEN e
                            ELSE ZipAdd(cumulative_expressions, e),
                            Tail(rest))

\* round(exp, 2) of a value in thousandths; a half goes to the even hundredth
Round2(x) ==
    LET r == x % 10
        down == x - r
    IN  IF r < 5 THEN down
        ELSE IF r > 5 THEN down + 10
        ELSE IF (down \div 10) % 2 = 0 THEN down ELSE down + 10

\* lines 57-91 for one cluster
ClusterBody(grp, rep) ==
    LET sel == Representative(grp, rep)
        total_exp == TotalExp(grp)
        cum == CumulativeFrom(<<>>, grp)
    IN  IF sel.raised # "None"
        THEN [raised |-> sel.raised, rep_tx |-> sel.tx, row |-> None]
        ELSE IF total_exp.raised # "None"
        THEN [raised |-> total_exp.raised, rep_tx |-> sel.tx, row |-> None]
        ELSE LET rep_tx == set_expression(sel.tx, <<total_exp.value>>)
             IN  [raised |-> "None", rep_tx |-> rep_tx,
                  row |-> [gtf |-> rep_tx,
                           groups |-> <<rep_tx.tid, MemberIds(grp)>>,
                           txcounts |-> <<rep_tx.tid,
                               [i \in 1..Len(cum) |-> Round2(cum[i])]>>]]

\* the clusters in the order the two loops of lines 51 and 55 reach them
RECURSIVE Flat(_)
Flat(cs) == IF cs = <<>> THEN <<>> ELSE Head(cs) \o Flat(Tail(cs))

\* one turn of the loop of line 55, under the policy of the run
ClusterStep ==
    /\ pc = "clustered"
    /\ Len(out) < Len(Flat(clusters))
    /\ \E rep \in Policies :
          /\ arg = None \/ arg = rep
          /\ arg' = rep
          /\ LET r == ClusterBody(Flat(clusters)[Len(out) + 1], rep)
             IN  /\ tx' = r.rep_tx
                 /\ IF r.raised = "None"
                    THEN out' = Append(out, r.row) /\ ret' = ret /\ pc' = pc
                    ELSE out' = out /\ ret' = r.raised /\ pc' = "raised"
    /\ UNCHANGED <<objects, cursor, acc, emitted, clusters, offered, pre, n>>

\* lines 93-95
ClusterEnd ==
    /\ pc = "clustered"
    /\ Len(out) = Len(Flat(clusters))
    /\ pc' = "done"
    /\ UNCHANGED <<sweepVars, txVars>>

NextClust == NextGene \/ ClusterStep \/ ClusterEnd

SpecClust == InitTranscriptome /\ [][NextClust]_vars

\* the element-wise sum of the members' vectors
VectorSum(grp) ==
    [i \in 1..Len(grp[1].expression) |->
        Sum([m \in 1..Len(grp) |-> grp[m].expression[i]])]

\* the input transcript of this id
Input(tid) == objects[CHOOSE i \in 1..Len(objects) : objects[i].tid = tid]

\* C7 (as claimed): when the run has ended, every cluster has its row in the
\* expression table, holding at each sample index the sum of the members'
\* values at that index, and every member still has the vector it came with.
C7_RowIsElementwiseSum ==
    pc \in {"done", "raised"} =>
        /\ Len(out) = Len(Flat(clusters))
        /\ \A k \in 1..Len(out) :
              LET grp == Flat(clusters)[k]
              IN  /\ out[k].txcounts[2] = VectorSum(grp)
                  /\ \A m \in 1..Len(grp) :
                        grp[m].expression = Input(grp[m].tid).expression

\* C8 (as claimed): when the run has ended, under every policy every cluster
\* has its row in the groups file, whose id list names each member exactly
\* once and starts with the representative's id.
C8_IdListRepresentativeFirst ==
    pc \in {"done", "raised"} =>
        /\ Len(out) = Len(Flat(clusters))
        /\ \A k \in 1..Len(out) :
              LET grp == Flat(clusters)[k]
                  ids == out[k].groups[2]
              IN  /\ \A m \in 1..Len(grp) :
                        Cardinality({i \in 1..Len(ids) : ids[i] = grp[m].tid}) = 1
                  /\ Len(ids) = Len(grp)
                  /\ ids[1] = out[k].gtf.tid

\* C9 (as claimed): when a run under the ORF policy has ended, every cluster
\* has its representative written, a copy of a member with that member's CDS
\* list as its exon list, and the member is as the Gene held it.
C9_OrfRepresentativeIsCds ==
    (arg = "ORF" /\ pc \in {"done", "raised"}) =>
        /\ Len(out) = Len(Flat(clusters))
        /\ \A k \in 1..Len(out) :
              LET grp == Flat(clusters)[k]
              IN  /\ \E m \in 1..Len(grp) :
                        /\ out[k].gtf.tid = grp[m].tid
                        /\ get_exons(out[k].gtf) = get_cds(grp[m])
                  /\ \A m \in 1..Len(grp) :
                        \E g \in 1..Len(emitted) : \E i \in 1..Len(emitted[g].objects) :
                            emitted[g].objects[i] = grp[m]

----------------------------------------------------------------------------
(* Groups filled by add_object: an empty Bundle, Gene, OverlapBundle or    *)
(* TXGroup is given Transcript, Exon and CDS objects one after another.    *)

\* the spans of the objects offered: two that touch, two that overlap and
\* one inside another
OfferSpans == {<<1, 2>>, <<2, 4>>, <<1, 3>>}

\* the objects add_object can be given: the Transcript and Exon objects the
\* factory makes of a line, and an Exon given the type CDS by set_type
\* (CDS(obj) itself raises, in Exon.__init__)
Offers(types, seqstrands, spans, tids, gids) ==
    {o \in {MkObject(ty, ss[1], ss[2], iv[1], iv[2], tid, gid) :
                ty \in types, ss \in seqstrands, iv \in spans,
                tid \in tids, gid \in gids} : CanConstruct(o)}

InitGroup ==
    /\ acc = EmptyGroup
    /\ pre = EmptyGroup
    /\ arg = None
    /\ ret = "None"
    /\ n = 0
    /\ tx = None
    /\ objects = <<>>
    /\ cursor = 0
    /\ emitted = <<>>
    /\ clusters = <<>>
    /\ out = <<>>
    /\ offered = <<>>
    /\ pc = "group"

\* one call of add_object on the group, with the value it returns
Offer(obj, r) ==
    /\ pc = "group"
    /\ pre' = acc
    /\ arg' = obj
    /\ acc' = r.g
    /\ ret' = IF r.ok THEN "True" ELSE "False"
    /\ offered' = Append(offered, obj)
    /\ UNCHANGED <<tx, n, objects, cursor, emitted, clusters, out, pc>>

(* SpecBundleAdd: Bundle.add_object *)

BundleOffers == Offers(ObjTypes, SeqStrands, OfferSpans, Tids, {"g1"})

BundleAddStep ==
    /\ Len(offered) < MaxOffers
    /\ \E obj \in BundleOffers : Offer(obj, BundleAddObject(acc, obj))

SpecBundleAdd == InitGroup /\ [][BundleAddStep]_vars

\* the parts of a group other than its identity
Holdings(g) == <<g.objects, g.tid_map, g.intervals, g.start, g.end>>

\* C11: every member of a Bundle has the seqid and strand of the first
\* object accepted, and add_object of an object whose seqid or strand differs
\* from them returns False and leaves members, index, merged intervals and
\* bounds as they were.
C11_BundleSharesSeqidStrand ==
    (pc = "group" /\ offered # <<>>) =>
        /\ \A i \in 1..Len(acc.objects) :
              /\ acc.objects[i].seqid = offered[1].seqid
              /\ acc.objects[i].strand = offered[1].strand
        /\ (Len(offered) > 1
            /\ (arg.seqid # offered[1].seqid \/ arg.strand # offered[1].strand))
           => (ret = "False" /\ Holdings(acc) = Holdings(pre))

C11_Witness ==
    /\ pc = "group"
    /\ Len(pre.objects) > 0 /\ Len(pre.intervals) > 0
    /\ arg.seqid = offered[1].seqid /\ arg.strand # offered[1].strand
    /\ arg.obj_type = "exon"
    /\ ret = "False"

(* SpecGeneAdd: Gene.add_object *)

GeneOffers ==
    Offers({"transcript", "exon"}, {<<"chr1", "+">>, <<"chr1", "-">>},
           {<<1, 2>>, <<2, 4>>}, Tids, {None, "g1", "g2"})

GeneAddStep ==
    /\ Len(offered) < MaxOffers
    /\ \E obj \in GeneOffers : Offer(obj, GeneAddObject(acc, obj))

SpecGeneAdd == InitGroup /\ [][GeneAddStep]_vars

\* C12: every member of a Gene has the gene id the first accepted object
\* fixed, and add_object of an object without gene_id, or with another
\* gene_id, returns False and leaves the Gene as it was.
C12_GeneSharesGid ==
    (pc = "group" /\ offered # <<>>) =>
        /\ \A i \in 1..Len(acc.objects) : acc.objects[i].gid = acc.gid
        /\ (pre.gid = None /\ ret = "True") => acc.gid = arg.attrs.gene_id
        /\ pre.gid # None => acc.gid = pre.gid
        /\ (arg.attrs.gene_id = None
            \/ (pre.gid # None /\ arg.attrs.gene_id # pre.gid))
           => (ret = "False" /\ acc = pre)

C12_Witness ==
    /\ pc = "group"
    /\ Len(pre.objects) > 0
    /\ pre.gid = "g1" /\ arg.attrs.gene_id = "g2"
    /\ arg.seqid = pre.seqid /\ arg.strand = pre.strand
    /\ ret = "False"

(* SpecOverlapAdd: OverlapBundle.add_object *)

OverlapOffers ==
    Offers({"transcript", "exon"}, {<<"chr1", "+">>, <<"chr1", "-">>},
           {<<1, 2>>, <<2, 3>>, <<3, 4>>}, Tids, {"g1"})

OverlapAddStep ==
    /\ Len(offered) < MaxOverlapOffers
    /\ \E obj \in OverlapOffers : Offer(obj, OverlapBundleAddObject(acc, obj))

SpecOverlapAdd == InitGroup /\ [][OverlapAddStep]_vars

\* how many of these objects an empty OverlapBundle accepts, given in order
RECURSIVE AcceptedOf(_, _)
AcceptedOf(g, objs) ==
    IF objs = <<>> THEN 0
    ELSE LET r == OverlapBundleAddObject(g, Head(objs))
         IN  (IF r.ok THEN 1 ELSE 0) + AcceptedOf(r.g, Tail(objs))

\* the orders in which the objects offered can be given
Orders(objs) ==
    {[i \in 1..Len(objs) |-> objs[f[i]]] :
        f \in {f \in [1..Len(objs) -> 1..Len(objs)] :
                  \A i, j \in 1..Len(objs) : f[i] = f[j] => i = j}}

\* C13: an OverlapBundle accepts an object exactly when it is empty or the
\* object's range overlaps its range [start, end], ends that touch included,
\* and the seqid and strand agree; an object it rejects leaves it as it was.
C13_OverlapBundleAccepts ==
    (pc = "group" /\ offered # <<>>) =>
        /\ is_empty(pre) <=> pre.seqid = None
        /\ ret = "True" <=>
              \/ is_empty(pre)
              \/ /\ pre.start <= arg.end /\ pre.end >= arg.start
                 /\ arg.seqid = pre.seqid /\ arg.strand = pre.strand
        /\ ret = "False" => acc = pre

\* three objects accepted in the order given, not all of them in another
C13_Witness ==
    /\ pc = "group"
    /\ Len(offered) = 3
    /\ AcceptedOf(EmptyGroup, offered) = 3
    /\ arg.start = acc.end - 1 /\ pre.end = arg.start
    /\ \E o \in Orders(offered) : AcceptedOf(EmptyGroup, o) < 3

\* the intervals of a sorted list, as a set
Range(tree) == {tree[i] : i \in 1..Len(tree)}

\* summary is the union of these exon intervals with the overlapping ones
\* coalesced: its intervals lie apart in ascending order, every exon is
\* inside one of them, and each of them starts and ends with an exon and is
\* bridged by an exon at every position inside it
ExonsCoalesced(summary, exons) ==
    /\ \A i \in 1..(Len(summary) - 1) : summary[i][2] <= summary[i + 1][1]
    /\ \A x \in exons : \E i \in 1..Len(summary) :
          summary[i][1] <= x[1] /\ x[2] <= summary[i][2]
    /\ \A i \in 1..Len(summary) :
          /\ \E x \in exons : x[1] = summary[i][1]
          /\ \E x \in exons : x[2] = summary[i][2]
          /\ \A p \in (summary[i][1] + 1)..(summary[i][2] - 1) :
                \E x \in exons : x[1] < p /\ p < x[2]

\* C14 (as claimed): the merged-interval summary of a Bundle is the union,
\* overlaps coalesced, of the exon intervals of its member transcripts; here
\* for the Genes the gene sweep fills with whole finalized transcripts.
C14_SummaryIsExonUnion ==
    pc \in {"group_by", "clustered"} =>
        \A k \in 1..Len(emitted) :
            ExonsCoalesced(emitted[k].intervals,
                UNION {Range(get_exons(Input(emitted[k].objects[i].tid))) :
                          i \in 1..Len(emitted[k].objects)})

----------------------------------------------------------------------------
(* SpecIndex: a TXGroup (the Transcriptome) under add_object, sort,        *)
(* coordinate_sort and gid_sort, and reindex on a list of member ids.      *)

\* TXGroup.reindex on the ids of the members in list order: the position of
\* every id, or the assertion when an id comes twice
reindex(tids) ==
    IF \E i, j \in 1..Len(tids) : i < j /\ tids[i] = tids[j]
    THEN [raised |-> "AssertionError", tid_map |-> <<>>]
    ELSE [raised |-> "None",
          tid_map |-> [t \in {tids[i] : i \in 1..Len(tids)} |->
                          CHOOSE i \in 1..Len(tids) : tids[i] = t]]

\* list.sort(key) with no reindex after it
SortGroupNoReindex(g, before) ==
    [raised |-> "None", g |-> [g EXCEPT !.objects = SortedBy(g.objects, before)]]

\* TXGroup._sort, coordinate_sort, gid_sort: list.sort(key), then reindex
SortGroup(g, before) ==
    LET objs == SortedBy(g.objects, before)
        r == reindex([i \in 1..Len(objs) |-> objs[i].tid])
    IN  [raised |-> r.raised,
         g |-> [g EXCEPT !.objects = objs, !.tid_map = r.tid_map]]

\* the key of TXGroup.sort: get_cds(), compared as lists like get_exons()
CdsBefore(a, b) == ExonsBefore(get_cds(a), get_cds(b))

IndexOffers ==
    Offers(ObjTypes, {<<"chr1", "+">>, <<"chr1", "-">>}, {<<1, 2>>, <<2, 4>>},
           {"t1"}, {None, "g2"})
    \cup Offers(ObjTypes, {<<"chr1", "+">>, <<"chr1", "-">>}, {<<1, 2>>, <<2, 4>>},
                {"t2"}, {None, "g1"})

IndexLive == {"group", "added", "sorted"}

\* TXGroup.add_object; the position it returns counts from 1, 0 is None
IndexAdd ==
    /\ pc \in IndexLive
    /\ Len(offered) < MaxOffers
    /\ \E obj \in IndexOffers :
          LET r == TXGroupAddObject(acc, obj)
          IN  /\ acc' = r.g
              /\ arg' = obj
              /\ ret' = [idx |-> r.idx]
              /\ offered' = Append(offered, obj)
    /\ pre' = acc
    /\ pc' = "added"
    /\ UNCHANGED <<tx, n, objects, cursor, emitted, clusters, out>>

\* a sort of the group's list, with what it raises
Sorted(r) ==
    /\ pc \in IndexLive
    /\ pre' = acc
    /\ acc' = r.g
    /\ ret' = [raised |-> r.raised]
    /\ pc' = IF r.raised = "None" THEN "sorted" ELSE "raised"
    /\ UNCHANGED <<tx, arg, n, objects, cursor, emitted, clusters, out, offered>>

\* TXGroup.sort
IndexSort ==
    Sorted(SortGroup(acc,
        {p \in (1..Len(acc.objects)) \X (1..Len(acc.objects)) :
            CdsBefore(acc.objects[p[1]], acc.objects[p[2]])}))

\* Transcriptome.coordinate_sort
IndexCoordinateSort ==
    Sorted(SortGroup(acc,
        {p \in (1..Len(acc.objects)) \X (1..Len(acc.objects)) :
            CoordBefore(acc.objects[p[1]], acc.objects[p[2]])}))

\* Transcriptome.gid_sort: the key of a member whose gid no constructor
\* assigned raises before the list is touched
IndexGidSort ==
    IF \E i \in 1..Len(acc.objects) : acc.objects[i].gid = Unset
    THEN Sorted([raised |-> "AttributeError", g |-> acc])
    ELSE Sorted(SortGroup(acc,
             {p \in (1..Len(acc.objects)) \X (1..Len(acc.objects)) :
                 GidBefore(acc.objects[p[1]], acc.objects[p[2]])}))

\* the lists of member ids reindex is tried on
IdLists == UNION {[1..k -> Tids] : k \in 0..(MaxOffers + 1)}

\* TXGroup.reindex on a list of members with these ids
IndexReindex ==
    /\ pc = "group"
    /\ \E tids \in IdLists :
          /\ arg' = tids
          /\ ret' = [raised |-> reindex(tids).raised]
    /\ pc' = "reindexed"
    /\ UNCHANGED <<tx, pre, n, acc, objects, cursor, emitted, clusters, out, offered>>

NextIndex ==
    IndexAdd \/ IndexSort \/ IndexCoordinateSort \/ IndexGidSort \/ IndexReindex

SpecIndex == InitGroup /\ [][NextIndex]_vars

\* the index of a group names its members' positions and nothing else
IndexConsistent(g) ==
    /\ DOMAIN g.tid_map = {g.objects[i].tid : i \in 1..Len(g.objects)}
    /\ \A i \in 1..Len(g.objects) : g.tid_map[g.objects[i].tid] = i
    /\ \A i, j \in 1..Len(g.objects) :
          g.objects[i].tid = g.objects[j].tid => i = j

\* C15: after any sequence of add_object, sort, coordinate_sort and gid_sort
\* the index maps every member's id to the member's position, has no other
\* entry and no id is shared; reindex raises exactly when an id comes twice.
C15_IndexConsistent ==
    /\ pc \in IndexLive \cup {"raised"} => IndexConsistent(acc)
    /\ pc = "reindexed" =>
          (ret.raised = "AssertionError"
              <=> \E i, j \in 1..Len(arg) : i # j /\ arg[i] = arg[j])

C15_Witness ==
    /\ pc = "sorted"
    /\ Len(acc.objects) = 2
    /\ acc.objects[1] = pre.objects[2]
    /\ acc.tid_map # pre.tid_map

\* C16 (as claimed): add_object of a record that has the transcript id of a
\* member but another seqid or strand than that member reports a rejection
\* (no position) and leaves the member as it was.
C16_MismatchIsReported ==
    (pc = "added" /\ arg.attrs.transcript_id \in DOMAIN pre.tid_map) =>
        LET at == pre.tid_map[arg.attrs.transcript_id]
            member == pre.objects[at]
        IN  (arg.seqid # member.seqid \/ arg.strand # member.strand)
                => (ret.idx = 0 /\ acc.objects[at] = member)

----------------------------------------------------------------------------
(* SpecDetect: a TReader is constructed on a stream of lines; set_file     *)
(* detects the dialect with is_gtf, and next_obj then yields the records.  *)
(* A line is its leading '#', the number of its tab-separated columns, its *)
(* third column and the beginning of its ninth.                            *)

MaxLines == 3       \* lines of a stream

DetectLine(comment, nfields, feature, attr) ==
    [comment |-> comment, nfields |-> nfields, feature |-> feature, attr |-> attr]

\* a comment; transcript lines of both dialects and of neither; exon and
\* CDS lines; a line of another feature; a line of ten columns; a line of
\* one column (an empty line); a transcript line without its ninth column
DetectLines ==
    {DetectLine(TRUE, 1, None, None),
     DetectLine(FALSE, 9, "transcript", "ID="),
     DetectLine(FALSE, 9, "transcript", "transcript_id"),
     DetectLine(FALSE, 9, "transcript", "Parent="),
     DetectLine(FALSE, 9, "exon", "transcript_id"),
     DetectLine(FALSE, 9, "CDS", "ID="),
     DetectLine(FALSE, 9, "gene", "ID="),
     DetectLine(FALSE, 10, "exon", "transcript_id"),
     DetectLine(FALSE, 1, None, None),
     DetectLine(FALSE, 8, "transcript", None)}

\* TReader.is_gtf: what the loop leaves in gff ("True": GFF, "False": GTF),
\* or the IndexError of a column that is not there
RECURSIVE is_gtf(_)
is_gtf(stream) ==
    IF stream = <<>> THEN "None"
    ELSE LET line == Head(stream)
         IN  IF line.comment THEN is_gtf(Tail(stream))
             ELSE IF line.nfields > 9 THEN "None"
             ELSE IF line.nfields < 3 THEN "IndexError"
             ELSE IF line.feature \notin {"transcript", "exon", "CDS"} THEN "None"
             ELSE IF line.feature = "transcript"
             THEN IF line.nfields < 9 THEN "IndexError"
                  ELSE IF line.attr = "ID=" THEN "True"
                  ELSE IF line.attr = "transcript_id" THEN "False"
                  ELSE "None"
             ELSE is_gtf(Tail(stream))

\* set_file as it would be without the test of lines 25-26
set_fileNoCheck(stream) ==
    LET gff == is_gtf(stream)
    IN  IF gff = "IndexError" THEN [raised |-> "IndexError", gff |-> "True"]
        ELSE [raised |-> "None", gff |-> gff]

\* TReader.set_file (gff is True from __init__ when is_gtf raises)
set_file(stream) ==
    LET gff == is_gtf(stream)
    IN  IF gff = "IndexError" THEN [raised |-> "IndexError", gff |-> "True"]
        ELSE IF gff = "None" THEN [raised |-> "Exception", gff |-> gff]
        ELSE [raised |-> "None", gff |-> gff]

\* GTFObjectFactory.create on a line of the stream: the class of the object
\* it returns or the exception it raises.  add_line returns early on a line
\* that has not nine columns and the untyped Object is returned; another
\* feature raises in add_line; CDS(obj) calls Exon.__init__ without its
\* argument; the assertions of Transcript(obj) and Exon(obj) are on
\* attributes a line of this model does not carry, so both outcomes are kept
create_outcomes(line) ==
    IF line.nfields # 9 THEN {"Object"}
    ELSE CASE line.feature = "transcript" -> {"Transcript", "AssertionError"}
           [] line.feature = "exon" -> {"Exon", "AssertionError"}
           [] line.feature = "CDS" -> {"TypeError"}
           [] OTHER -> {"Exception"}

InitDetect ==
    /\ objects \in UNION {[1..k -> DetectLines] : k \in 0..MaxLines}
    /\ cursor = 0
    /\ acc = None
    /\ emitted = <<>>
    /\ clusters = <<>>
    /\ out = <<>>
    /\ offered = <<>>
    /\ tx = None /\ pre = None /\ arg = None /\ ret = "None" /\ n = 0
    /\ pc = "new"

\* TReader(fname): __init__ calls set_file
SetFile ==
    /\ pc = "new"
    /\ ret' = set_file(objects)
    /\ pc' = IF ret'.raised = "None" THEN "open" ELSE "raised"
    /\ cursor' = 1
    /\ UNCHANGED <<tx, pre, arg, n, objects, acc, emitted, clusters, out, offered>>

\* one turn of the loop of next_obj: a comment is kept aside, any other line
\* goes to the factory
NextObj ==
    /\ pc = "open"
    /\ cursor <= Len(objects)
    /\ cursor' = cursor + 1
    /\ IF objects[cursor].comment
       THEN out' = out /\ pc' = pc
       ELSE \E r \in create_outcomes(objects[cursor]) :
               IF r \in {"Object", "Transcript", "Exon"}
               THEN out' = Append(out, r) /\ pc' = pc
               ELSE out' = out /\ pc' = "failed"
    /\ UNCHANGED <<tx, pre, arg, ret, n, objects, acc, emitted, clusters, offered>>

NextDetect == SetFile \/ NextObj

SpecDetect == InitDetect /\ [][NextDetect]_vars

\* the position of the first line of the stream, from position i on, that is
\* neither a comment nor an exon or CDS line; 0 when there is none
RECURSIVE Deciding(_, _)
Deciding(stream, i) ==
    IF i > Len(stream) THEN 0
    ELSE IF stream[i].comment \/ stream[i].feature \in {"exon", "CDS"}
    THEN Deciding(stream, i + 1)
    ELSE i

\* what the stream's first transcript line says: "True" for GFF, "False" for
\* GTF, "None" when it says neither, when another feature comes first or
\* when there is no transcript line
Dialect(stream) ==
    LET d == Deciding(stream, 1)
    IN  IF d = 0 \/ stream[d].feature # "transcript" THEN "None"
        ELSE IF stream[d].attr = "ID=" THEN "True"
        ELSE IF stream[d].attr = "transcript_id" THEN "False"
        ELSE "None"

\* no line that is not a comment has more than the nine columns of an
\* annotation line
NineColumns(stream) ==
    \A i \in 1..Len(stream) : stream[i].comment \/ stream[i].nfields <= 9

----------------------------------------------------------------------------
(* SpecRoundTrip: a transcript is assembled from records and finalized, it *)
(* is written by to_gtf, and its lines are read back the way               *)
(* build_from_file reads a file: GTFObjectFactory.create (add_line and the *)
(* constructor of the line's type), TXGroup.add_object, then finalize.     *)
(* The data object of an exon or CDS interval is the record Transcript.add *)
(* was given; offered lists these records with the class of each.          *)

\* a record with the class of the object that carries it
OfClass(obj, class) == obj @@ [class |-> class]

\* the record a transcript is constructed from: a Transcript or an Exon the
\* factory made of a line
RoundTripFirst ==
    {OfClass(o, IF o.obj_type = "transcript" THEN "Transcript" ELSE "Exon") :
        o \in Offers({"transcript", "exon"}, {<<"chr1", "+">>}, OfferSpans,
                     {"t1"}, {None, "g1"})}

\* the records added to it: Exon objects, and CDS records, which are the
\* Object add_line filled (CDS(obj) raises) or an Exon given the type CDS
\* by set_type
RoundTripRecords ==
    {OfClass(o, "Exon") :
        o \in Offers({"exon", "CDS"}, {<<"chr1", "+">>}, OfferSpans, {"t1"}, {None})}
    \cup {OfClass(o, "Object") :
        o \in Offers({"CDS"}, {<<"chr1", "+">>}, OfferSpans, {"t1"}, {None})}

\* to_attribute_string(attrs, False, kind): the pairs key "value"; of the
\* keys present, gene_id when present
to_attribute_string(attrs) ==
    (IF attrs.transcript_id # None
     THEN << <<"transcript_id", attrs.transcript_id>> >> ELSE <<>>)
    \o (IF attrs.gene_id # None
        THEN << <<"gene_id", attrs.gene_id>> >> ELSE <<>>)

\* extract_attributes(lcs[8]): the mapping of the pairs of the string
extract_attributes(s) ==
    [k \in {"transcript_id", "gene_id"} |->
        IF \E i \in 1..Len(s) : s[i][1] = k
        THEN s[CHOOSE i \in 1..Len(s) : s[i][1] = k][2]
        ELSE None]

\* the columns of one line written by Transcript.to_gtf or Exon.to_gtf that
\* add_line reads back: the end is written as end - 1
GtfLine(seqid, feature, start, end, strand, attrs) ==
    [seqid |-> seqid, feature |-> feature, start |-> start, end |-> end - 1,
     strand |-> strand, attrs |-> to_attribute_string(attrs)]

\* Transcript.to_gtf: the transcript line, then e[2].to_gtf() for the sorted
\* exons and c[2].to_gtf() for the sorted CDS; an Object has no to_gtf.  The
\* line of an interval has the interval's coordinates and the transcript's
\* seqid, strand and id, which Transcript.add compared; a gene_id of the
\* record itself, which nothing reads back, is left out
to_gtf(t, data) ==
    IF \E i \in 1..Len(data) : data[i].class = "Object"
    THEN [raised |-> "AttributeError", lines |-> <<>>]
    ELSE [raised |-> "None",
          lines |->
            <<GtfLine(t.seqid, "transcript", t.start, t.end, t.strand, t.attrs)>>
            \o [i \in 1..Len(t.exons) |->
                  GtfLine(t.seqid, "exon", t.exons[i][1], t.exons[i][2],
                          t.strand, Attrs(t.tid, None))]
            \o [i \in 1..Len(t.cds) |->
                  GtfLine(t.seqid, "CDS", t.cds[i][1], t.cds[i][2],
                          t.strand, Attrs(t.tid, None))]]

\* Object.add_line on a line of nine columns: the end is read as end + 1
add_line(line) ==
    LET attrs == extract_attributes(line.attrs)
    IN  MkObject(line.feature, line.seqid, line.strand,
                 Min(Inf, line.start), Max(0, line.end + 1),
                 attrs.transcript_id, attrs.gene_id)

\* GTFObjectFactory.create: Transcript(obj) and Exon(obj) with their
\* assertions; CDS(obj) calls Exon.__init__(self) without its argument
create(line) ==
    LET obj == add_line(line)
    IN  IF obj.obj_type = "CDS" THEN [raised |-> "TypeError", obj |-> obj]
        ELSE IF ~CanConstruct(obj) THEN [raised |-> "AssertionError", obj |-> obj]
        ELSE [raised |-> "None", obj |-> obj]

InitRoundTrip ==
    /\ tx = None /\ pre = None /\ arg = None /\ ret = "None" /\ n = 0
    /\ objects = <<>>
    /\ cursor = 0
    /\ acc = EmptyGroup
    /\ emitted = <<>>
    /\ clusters = <<>>
    /\ out = <<>>
    /\ offered = <<>>
    /\ pc = "new"

\* Transcript(obj)
RoundTripNew ==
    /\ pc = "new"
    /\ \E obj \in RoundTripFirst :
          /\ tx' = NewTranscript(obj)
          /\ arg' = obj
    /\ pc' = "assembling"
    /\ UNCHANGED <<pre, ret, n, sweepVars>>

\* Transcript.add
RoundTripAdd ==
    /\ pc = "assembling"
    /\ n < MaxAdds
    /\ \E obj \in RoundTripRecords :
          LET r == TranscriptAdd(tx, obj)
          IN  /\ tx' = r.tx
              /\ arg' = obj
              /\ offered' = IF r.ok THEN Append(offered, obj) ELSE offered
    /\ pre' = tx
    /\ n' = n + 1
    /\ UNCHANGED <<ret, pc, objects, cursor, acc, emitted, clusters, out>>

\* Transcript.finalize()
RoundTripFinalize ==
    /\ pc = "assembling"
    /\ pre' = tx
    /\ tx' = FinalizeBounds(tx, FALSE)
    /\ IF TidAssigned(tx) /\ CdsFits(tx')
       THEN ret' = "None" /\ pc' = "final"
       ELSE ret' = "AssertionError" /\ pc' = "failed"
    /\ UNCHANGED <<arg, n, sweepVars>>

\* Transcript.to_gtf
RoundTripToGtf ==
    /\ pc = "final"
    /\ LET r == to_gtf(tx, offered)
       IN  /\ out' = r.lines
           /\ ret' = r.raised
           /\ pc' = IF r.raised = "None" THEN "written" ELSE "raised"
    /\ cursor' = 1
    /\ UNCHANGED <<tx, pre, arg, n, objects, acc, emitted, clusters, offered>>

\* build_from_file, lines 94-96: the next line goes through the factory to
\* add_object
RoundTripRead ==
    /\ pc = "written"
    /\ cursor <= Len(out)
    /\ LET r == create(out[cursor])
       IN  IF r.raised = "None"
           THEN /\ acc' = TXGroupAddObject(acc, r.obj).g
                /\ ret' = ret
                /\ pc' = pc
           ELSE /\ acc' = acc
                /\ ret' = r.raised
                /\ pc' = "raised"
    /\ cursor' = cursor + 1
    /\ UNCHANGED <<tx, pre, arg, n, objects, emitted, clusters, out, offered>>

\* build_from_file, lines 98-100: every member is finalized
RoundTripRebuilt ==
    /\ pc = "written"
    /\ cursor > Len(out)
    /\ acc' = [acc EXCEPT !.objects =
                  [i \in 1..Len(acc.objects) |-> FinalizeBounds(acc.objects[i], FALSE)]]
    /\ IF \A i \in 1..Len(acc.objects) :
             TidAssigned(acc.objects[i]) /\ CdsFits(acc'.objects[i])
       THEN ret' = "None" /\ pc' = "rebuilt"
       ELSE ret' = "AssertionError" /\ pc' = "raised"
    /\ UNCHANGED <<tx, pre, arg, n, objects, cursor, emitted, clusters, out, offered>>

NextRoundTrip ==
    \/ RoundTripNew
    \/ RoundTripAdd
    \/ RoundTripFinalize
    \/ RoundTripToGtf
    \/ RoundTripRead
    \/ RoundTripRebuilt

SpecRoundTrip == InitRoundTrip /\ [][NextRoundTrip]_vars

\* the same id, bounds and exon and CDS interval sets
SameTranscript(a, b) ==
    /\ a.tid = b.tid
    /\ a.start = b.start /\ a.end = b.end
    /\ Range(a.exons) = Range(b.exons)
    /\ Range(a.cds) = Range(b.cds)

\* C18 (as claimed): for every finalized transcript, writing it and reading
\* its lines back ends without an exception in one transcript with the same
\* id, the same start and end and the same exon and CDS interval sets.
C18_RoundTrip ==
    pc \in {"raised", "rebuilt"} =>
        /\ pc = "rebuilt"
        /\ Len(acc.objects) = 1
        /\ SameTranscript(acc.objects[1], tx)

----------------------------------------------------------------------------
(* The bundles of the bundle sweep (SpecBundle) *)

\* C19 (as claimed): the bundle sweep of a coordinate-sorted transcriptome
\* runs to its end, and no two distinct bundles it emitted have aggregate
\* ranges that overlap under start_a <= end_b and end_a >= start_b.
C19_BundlesApart ==
    pc \in {"swept", "raised"} =>
        /\ pc = "swept"
        /\ \A i \in 1..Len(emitted) : \A j \in 1..Len(emitted) :
              i # j => ~overlaps(emitted[i], emitted[j])

\* the members of the list reached from those in S by chains in which
\* consecutive members overlap each other, k links long at most
RECURSIVE Chained(_, _, _)
Chained(members, S, k) ==
    IF k = 0 THEN S
    ELSE Chained(members,
                 S \cup {j \in 1..Len(members) :
                            \E i \in S : overlaps(members[i], members[j])},
                 k - 1)

\* C20 (as claimed): the bundle sweep of a coordinate-sorted transcriptome
\* runs to its end, and inside each bundle it emitted every member is reached
\* from every other by a chain of members in which consecutive ones overlap.
C20_BundleChained ==
    pc \in {"swept", "raised"} =>
        /\ pc = "swept"
        /\ \A b \in 1..Len(emitted) :
              LET members == emitted[b].objects
              IN  \A i \in 1..Len(members) :
                     Chained(members, {i}, Len(members)) = 1..Len(members)

----------------------------------------------------------------------------
(* SpecNew: Transcript(obj) on the record of one line, its attributes      *)
(* under the canonical keys, each of the two present or absent.            *)

\* the records of well-formed lines, with and without either id
NewRecords ==
    {MkObject(ty, ss[1], ss[2], iv[1], iv[2], tid, gid) :
        ty \in ObjTypes, ss \in SeqIds \X Strands, iv \in Intervals,
        tid \in Tids \cup {None}, gid \in Gids \cup {None}}

\* Transcript.__init__(obj): from_transcript or from_exon with their
\* assertions, then the transcript they leave
TranscriptInit(obj) ==
    IF CanConstruct(obj)
    THEN [raised |-> "None", tx |-> NewTranscript(obj)]
    ELSE [raised |-> "AssertionError", tx |-> None]

InitNew ==
    /\ arg \in NewRecords
    /\ tx = None /\ pre = None /\ ret = "None" /\ n = 0
    /\ NoSweep
    /\ pc = "record"

Construct ==
    /\ pc = "record"
    /\ LET r == TranscriptInit(arg)
       IN  /\ tx' = r.tx
           /\ ret' = r.raised
           /\ pc' = IF r.raised = "None" THEN "constructed" ELSE "raised"
    /\ UNCHANGED <<pre, arg, n, sweepVars>>

SpecNew == InitNew /\ [][Construct]_vars

\* C21 (as claimed): Transcript(obj) on a transcript record that carries a
\* transcript_id returns, with or without a gene_id, a transcript whose tid
\* is the transcript_id and whose gid is the gene_id when there is one; on a
\* transcript record without transcript_id it fails.
C21_GeneIdOptional ==
    (pc \in {"constructed", "raised"} /\ arg.obj_type = "transcript") =>
        IF arg.attrs.transcript_id # None
        THEN /\ pc = "constructed"
             /\ tx.tid = arg.attrs.transcript_id
             /\ arg.attrs.gene_id # None => tx.gid = arg.attrs.gene_id
        ELSE pc = "raised"

----------------------------------------------------------------------------
(* finalize(extend=True), under SpecFin *)

\* C22 (as claimed): after finalize(extend=True) on a transcript with an
\* exon, start and end are the union of the bounds it had and the bounds of
\* its exons, the first exon starts at start and the last exon ends at end.
C22_ExtendReachesExons ==
    (pc = "final" /\ arg.extend /\ Len(pre.exons) > 0) =>
        /\ tx.start = Min(pre.start, TreeBegin(pre.exons))
        /\ tx.end = Max(pre.end, TreeEnd(pre.exons))
        /\ tx.exons[1][1] = tx.start
        /\ tx.exons[Len(tx.exons)][2] = tx.end

----------------------------------------------------------------------------
(* The members of the Genes of the gene sweep, under SpecGene *)

\* C23 (as claimed): once the gene sweep has ended, every member of every
\* emitted Gene has the exon list and the CDS list of the finalized input
\* transcript of its id.
C23_MembersKeepStructure ==
    pc \in {"group_by", "clustered"} =>
        \A k \in 1..Len(emitted) : \A i \in 1..Len(emitted[k].objects) :
            LET member == emitted[k].objects[i]
            IN  /\ get_exons(member) = get_exons(Input(member.tid))
                /\ get_cds(member) = get_cds(Input(member.tid))

====
